---- MODULE Spec2Model ----
(***************************************************************************)
(* Cable sizing engine of cable_app.py: the four reference tables,         *)
(* calculate_current and select_cable.                                     *)
(*                                                                         *)
(* Arguments and results are written as decimals, each an integer multiple *)
(* of a fixed unit:                                                        *)
(*   cable size                 tenths of mm2        (1.5 mm2  -> 15)      *)
(*   current, load value        thousandths          (63 A     -> 63000)   *)
(*   derating factor            ten-thousandths      (0.8125   -> 8125)    *)
(*   power factor               hundredths           (0.9      -> 90)      *)
(*   max voltage drop percent   thousandths of 1 %   (3 %      -> 3000)    *)
(*   voltage drop factor        hundredths mV/A/m    (4.40     -> 440)     *)
(*   length (m), voltage (V), base capacity (A)      whole numbers         *)
(* and the rounded fields of a result in the unit of their last digit:     *)
(*   actual_capacity, voltage_drop   hundredths   (round(x, 2))            *)
(*   voltage_drop_mv                 thousandths  (round(x, 3))            *)
(* A decimal stands for the Python float written with these digits.  The   *)
(* program computes on floats, and so does the model: a float is an IEEE   *)
(* 754 double [sign, man, exp] of value sign * man * 2^exp with a 53-bit   *)
(* man, every product and quotient is rounded to the nearest double, and   *)
(* round(x, n) rounds the double actually held.  Tags are strings, kept as *)
(* sequences of Unicode code points so that upper() and lower() convert    *)
(* them as the runtime does.                                               *)
(***************************************************************************)
EXTENDS Integers, Sequences, FiniteSets, TLC

VARIABLES pc, op, args, result

vars == <<pc, op, args, result>>

None == "None"

(***************************************************************************)
(* Strings: the keys of the tables and the tags the code compares with.    *)
(***************************************************************************)
\* "ground"
GROUND == <<103, 114, 111, 117, 110, 100>>

\* "free_air"
FREE_AIR == <<102, 114, 101, 101, 95, 97, 105, 114>>

\* "pipe_duct"
PIPE_DUCT == <<112, 105, 112, 101, 95, 100, 117, 99, 116>>

\* "CU"
CU == <<67, 85>>

\* "AL"
AL == <<65, 76>>

\* One entry of a current-rating table: {'ground': g, 'free_air': f,
\* 'pipe_duct': p}.
Rating(g, f, p) == (GROUND :> g) @@ (FREE_AIR :> f) @@ (PIPE_DUCT :> p)

(***************************************************************************)
(* Reference tables (keys: cable size in tenths of mm2; voltage drop       *)
(* factors in hundredths).                                                 *)
(***************************************************************************)
COPPER_CURRENT_RATINGS ==
       (15   :> Rating(17,  24,  15))
    @@ (25   :> Rating(27,  38,  24))
    @@ (40   :> Rating(36,  51,  32))
    @@ (60   :> Rating(46,  65,  41))
    @@ (100  :> Rating(63,  89,  56))
    @@ (160  :> Rating(85,  119, 76))
    @@ (250  :> Rating(111, 155, 100))
    @@ (350  :> Rating(135, 188, 122))
    @@ (500  :> Rating(163, 227, 148))
    @@ (700  :> Rating(203, 284, 184))
    @@ (950  :> Rating(244, 340, 221))
    @@ (1200 :> Rating(280, 390, 254))
    @@ (1500 :> Rating(315, 438, 286))
    @@ (1850 :> Rating(353, 492, 320))
    @@ (2400 :> Rating(406, 565, 368))
    @@ (3000 :> Rating(456, 635, 414))
    @@ (4000 :> Rating(545, 760, 496))

ALUMINIUM_CURRENT_RATINGS ==
       (15   :> Rating(13,  18,  11))
    @@ (25   :> Rating(20,  28,  18))
    @@ (40   :> Rating(27,  38,  24))
    @@ (60   :> Rating(34,  48,  30))
    @@ (100  :> Rating(46,  65,  41))
    @@ (160  :> Rating(63,  88,  57))
    @@ (250  :> Rating(82,  114, 73))
    @@ (350  :> Rating(100, 139, 90))
    @@ (500  :> Rating(121, 169, 109))
    @@ (700  :> Rating(151, 211, 136))
    @@ (950  :> Rating(182, 254, 163))
    @@ (1200 :> Rating(209, 292, 188))
    @@ (1500 :> Rating(234, 327, 210))
    @@ (1850 :> Rating(263, 368, 236))
    @@ (2400 :> Rating(303, 424, 272))
    @@ (3000 :> Rating(340, 475, 305))
    @@ (4000 :> Rating(408, 570, 366))

\* Variant of COPPER_VOLTAGE_DROP_FACTORS: the 400 mm2 entry missing.
COPPER_VOLTAGE_DROP_FACTORS_without_400 ==
       (15 :> 2950) @@ (25 :> 1780) @@ (40 :> 1100) @@ (60 :> 741)
    @@ (100 :> 440) @@ (160 :> 275) @@ (250 :> 175) @@ (350 :> 125)
    @@ (500 :> 89) @@ (700 :> 63) @@ (950 :> 47) @@ (1200 :> 37)
    @@ (1500 :> 30) @@ (1850 :> 24) @@ (2400 :> 18) @@ (3000 :> 15)

COPPER_VOLTAGE_DROP_FACTORS ==
       (15 :> 2950) @@ (25 :> 1780) @@ (40 :> 1100) @@ (60 :> 741)
    @@ (100 :> 440) @@ (160 :> 275) @@ (250 :> 175) @@ (350 :> 125)
    @@ (500 :> 89) @@ (700 :> 63) @@ (950 :> 47) @@ (1200 :> 37)
    @@ (1500 :> 30) @@ (1850 :> 24) @@ (2400 :> 18) @@ (3000 :> 15)
    @@ (4000 :> 11)

ALUMINIUM_VOLTAGE_DROP_FACTORS ==
       (15 :> 4720) @@ (25 :> 2850) @@ (40 :> 1760) @@ (60 :> 1180)
    @@ (100 :> 704) @@ (160 :> 440) @@ (250 :> 280) @@ (350 :> 200)
    @@ (500 :> 142) @@ (700 :> 100) @@ (950 :> 75) @@ (1200 :> 59)
    @@ (1500 :> 47) @@ (1850 :> 38) @@ (2400 :> 29) @@ (3000 :> 24)
    @@ (4000 :> 18)

(***************************************************************************)
(* Natural numbers of any size: sequences of limbs in base B, least        *)
(* significant limb first (TLC integers have 32 bits; a limb product stays *)
(* below 2^28).                                                            *)
(***************************************************************************)
B == 16384

\* The sequence with the elements of the function f on 1..n, each computed
\* once.
Tuple(f) == f \o <<>>

\* Limb i (counted from 0) of a; 0 outside a.
LimbAt(a, i) == IF i >= 0 /\ i < Len(a) THEN a[i + 1] ELSE 0

\* One pass of carries: each column keeps its low limb and takes the rest
\* of the column below.
CarryPass(c) ==
    Tuple([k \in 1..Len(c) |->
              (c[k] % B) + (IF k > 1 THEN c[k - 1] \div B ELSE 0)])

\* The carry into column k of columns e that are all below 2 * B: some
\* lower column overflows and every column between is full.
CarryIn(e, k) ==
    IF \E j \in 1..(k - 1) :
          e[j] >= B /\ \A i \in (j + 1)..(k - 1) : e[i] = B - 1
    THEN 1 ELSE 0

\* The limbs of columns e that are all below 2 * B, the carries taken in.
Resolve(e) == Tuple([k \in 1..Len(e) |-> (e[k] + CarryIn(e, k)) % B])

\* The limbs of the number with columns c (0 <= c[k] < 2^31, the top column
\* large enough to take the last carry).
Normalize(c) == Resolve(CarryPass(CarryPass(c)))

\* The limbs of an int n >= 0.
BigFromInt(n) == <<n % B, (n \div B) % B, n \div (B * B)>>

\* a * d for an int 0 <= d < 2^16, with one more limb than a.
BigMulSmall(a, d) ==
    Normalize(Tuple([k \in 1..(Len(a) + 1) |-> LimbAt(a, k - 1) * d]))

\* a * b for a of at most 4 limbs.
BigMul(a, b) ==
    Normalize(Tuple([k \in 1..(Len(a) + Len(b)) |->
                  LimbAt(a, 0) * LimbAt(b, k - 1) + LimbAt(a, 1) * LimbAt(b, k - 2)
                + LimbAt(a, 2) * LimbAt(b, k - 3) + LimbAt(a, 3) * LimbAt(b, k - 4)]))

\* a <= b as numbers, whatever the lengths.
BigLeq(a, b) ==
    ~\E i \in 0..(Len(a) - 1) :
        /\ LimbAt(a, i) > LimbAt(b, i)
        /\ \A j \in (i + 1)..(Len(a) + Len(b)) : LimbAt(a, j) = LimbAt(b, j)

\* a - b for a >= b, with the length of a.
BigSub(a, b) ==
    LET s == Normalize(Tuple([k \in 1..(Len(a) + 1) |->
                 IF k > Len(a) THEN 0
                 ELSE a[k] + (B - 1 - LimbAt(b, k - 1)) + (IF k = 1 THEN 1 ELSE 0)]))
    IN  SubSeq(s, 1, Len(a))

\* Number of bits of an int 0 <= n < B.
BitLen(n) == IF n = 0 THEN 0 ELSE CHOOSE k \in 1..14 : 2 ^ (k - 1) <= n /\ n < 2 ^ k

\* Number of bits of a.
BigBitLen(a) ==
    IF \A i \in 1..Len(a) : a[i] = 0 THEN 0
    ELSE LET t == CHOOSE i \in 1..Len(a) :
                      a[i] # 0 /\ \A j \in (i + 1)..Len(a) : a[j] = 0
         IN  14 * (t - 1) + BitLen(a[t])

\* The 14 bits of a from bit p on (p may be negative: bits below 0 are 0).
Field(a, p) ==
    LET q == IF p >= 0 THEN p \div 14 ELSE -((13 - p) \div 14)
        r == p - 14 * q
    IN  (LimbAt(a, q) \div (2 ^ r)) + (LimbAt(a, q + 1) % (2 ^ r)) * (2 ^ (14 - r))

\* Bit p of a (p >= 0).
Bit(a, p) == (LimbAt(a, p \div 14) \div (2 ^ (p % 14))) % 2

\* Some bit of a below bit p is set.
LowNonZero(a, p) ==
    \E i \in 1..Len(a) :
        /\ 14 * (i - 1) < p
        /\ IF 14 * i <= p THEN a[i] # 0 ELSE a[i] % (2 ^ (p - 14 * (i - 1))) # 0

\* a + 1 for 4 limbs.
Increment(a) ==
    IF a[1] < B - 1 THEN <<a[1] + 1, a[2], a[3], a[4]>>
    ELSE IF a[2] < B - 1 THEN <<0, a[2] + 1, a[3], a[4]>>
    ELSE IF a[3] < B - 1 THEN <<0, 0, a[3] + 1, a[4]>>
    ELSE <<0, 0, 0, a[4] + 1>>

\* Estimate of R \div Y from the two top limbs of R, for Y of 4 limbs with
\* top limb >= B / 2 and R of 5 limbs below Y * B: at most 2 too large.
Estimate(top2, y4) == IF top2 \div y4 < B - 1 THEN top2 \div y4 ELSE B - 1

\* R \div Y from its estimate qhat.
Correct(R, Y, qhat) ==
    IF qhat = 0 THEN 0
    ELSE IF BigLeq(BigMulSmall(Y, qhat), R) THEN qhat
    ELSE IF BigLeq(BigMulSmall(Y, qhat - 1), R) THEN qhat - 1
    ELSE qhat - 2

\* R - p as 4 limbs, for p = Y * (R \div Y).
Remainder(R, p) ==
    IF p = R THEN <<0, 0, 0, 0>> ELSE SubSeq(BigSub(R, p), 1, 4)

\* The quotient digit q with its remainder.
Step(R, Y, q) == [q |-> q, r |-> Remainder(R, BigMulSmall(Y, q))]

\* One step of long division: q = R \div Y and r = R % Y.
DivStep(R, Y) == Step(R, Y, Correct(R, Y, Estimate(R[5] * B + R[4], Y[4])))

\* The n digits still to come from remainder R, put before the digits
\* found so far (least significant first), and whether the division is
\* exact; after a remainder 0 every digit is 0.
RECURSIVE LongDivideFrom(_, _, _, _)
LongDivideNext(step, Y, digits, n) ==
    IF step.r = <<0, 0, 0, 0>>
    THEN [quot |-> [k \in 1..(n - 1) |-> 0] \o <<step.q>> \o digits,
          exact |-> TRUE]
    ELSE LongDivideFrom(step.r, Y, <<step.q>> \o digits, n - 1)

LongDivideFrom(R, Y, digits, n) ==
    IF n = 0 THEN [quot |-> digits, exact |-> FALSE]
    ELSE LongDivideNext(DivStep(<<0>> \o R, Y), Y, digits, n)

\* The first digit q4 (0 or 1) of X * B^4 \div Y, then the four others.
LongDivideFirst(X, Y, q4) ==
    IF q4 = 1 THEN LongDivideFrom(BigSub(X, Y), Y, <<1>>, 4)
    ELSE LongDivideFrom(X, Y, <<0>>, 4)

\* X * B^4 \div Y as 5 limbs, and whether the division is exact, for X and
\* Y of 4 limbs with top limbs >= B / 2 (so X < 2 * Y).
LongDivide(X, Y) == LongDivideFirst(X, Y, IF BigLeq(Y, X) THEN 1 ELSE 0)
(***************************************************************************)
(* Python floats: IEEE 754 doubles [sign, man, exp] of value               *)
(* sign * man * 2^exp, man of 4 limbs with 2^52 <= man < 2^53; round to    *)
(* nearest, ties to even.  (Values stay far from the overflow and          *)
(* underflow thresholds.)                                                  *)
(***************************************************************************)
Zero == [sign |-> 0, man |-> <<0, 0, 0, 0>>, exp |-> 0]

\* The significand N cut at bit off is rounded up: the bit below is set,
\* and a bit further down is set or the kept significand man is odd.
RoundUp(N, off, sticky, man) ==
    /\ off > 0
    /\ Bit(N, off - 1) = 1
    /\ (sticky \/ LowNonZero(N, off - 1) \/ man[1] % 2 = 1)

\* The double of significand man (2^52 <= man <= 2^53) and exponent e.
Pack(sign, man, e) ==
    IF man[4] = 2048
    THEN [sign |-> sign, man |-> <<0, 0, 0, 1024>>, exp |-> e + 1]
    ELSE [sign |-> sign, man |-> man, exp |-> e]

\* The double nearest to sign * N * 2^e from the 53 bits man of N above
\* bit off.
RoundKept(sign, N, e, sticky, off, man) ==
    IF RoundUp(N, off, sticky, man) THEN Pack(sign, Increment(man), e + off)
    ELSE [sign |-> sign, man |-> man, exp |-> e + off]

\* The double nearest to sign * N * 2^e, N cut at bit off.
RoundAt(sign, N, e, sticky, off) ==
    RoundKept(sign, N, e, sticky, off,
              Tuple([k \in 1..4 |-> Field(N, off + 14 * (k - 1))]))

\* The double nearest to sign * N * 2^e (N > 0); sticky says that the exact
\* value lies strictly above N * 2^e, by less than 2^e.
RoundToDouble(sign, N, e, sticky) ==
    RoundAt(sign, N, e, sticky, BigBitLen(N) - 53)

\* float(n) of an int n.
FromInt(n) ==
    IF n = 0 THEN Zero
    ELSE RoundToDouble(IF n < 0 THEN -1 ELSE 1,
                       BigFromInt(IF n < 0 THEN -n ELSE n), 0, FALSE)

\* x * y.
fmul(x, y) ==
    IF x.sign = 0 \/ y.sign = 0 THEN Zero
    ELSE RoundToDouble(x.sign * y.sign, BigMul(x.man, y.man),
                       x.exp + y.exp, FALSE)

\* The double nearest to the quotient d of two significands.
fdivRound(sign, d, e) ==
    IF d.exact THEN RoundToDouble(sign, d.quot, e, FALSE)
    ELSE RoundToDouble(sign, d.quot, e, TRUE)

\* x / y for y # 0: the mantissas are scaled by 8 to fill their 4 limbs.
fdiv(x, y) ==
    IF y.sign # 0 /\ x.sign = 0 THEN Zero
    ELSE fdivRound(x.sign * y.sign,
                   LongDivide(SubSeq(BigMulSmall(x.man, 8), 1, 4),
                              SubSeq(BigMulSmall(y.man, 8), 1, 4)),
                   x.exp - y.exp - 56)

\* The float of the literal n / scale (scale a power of ten): the double
\* nearest to the decimal.
Dec(n, scale) == fdiv(FromInt(n), FromInt(scale))

\* -1, 0 or 1 as x < y, x = y or x > y.
fcmp(x, y) ==
    IF x.sign # y.sign THEN (IF x.sign < y.sign THEN -1 ELSE 1)
    ELSE IF x.sign = 0 \/ (x.exp = y.exp /\ x.man = y.man) THEN 0
    ELSE IF x.exp < y.exp \/ (x.exp = y.exp /\ BigLeq(x.man, y.man))
    THEN -x.sign
    ELSE x.sign

\* sign * round(N / 2^sh) for sh > 0, an exact half to the even integer.
roundHalfEven(sign, N, sh, v) ==
    IF Bit(N, sh - 1) = 1 /\ (LowNonZero(N, sh - 1) \/ v % 2 = 1)
    THEN sign * (v + 1)
    ELSE sign * v

\* sign * round(N / 2^sh), the integer part read from bit sh of N on.
roundAt(sign, N, sh) ==
    roundHalfEven(sign, N, sh,
                  Field(N, sh) + Field(N, sh + 14) * B
                    + Field(N, sh + 28) * B * B)

\* round(x, ndigits) for ndigits in 0..3 and |x| * 10^ndigits < 2^31, in
\* units of 10^-ndigits: the decimal with ndigits digits nearest to the
\* exact value of the double x (an exact half to the even digit); the float
\* returned is the one written with these digits.
round(x, ndigits) ==
    IF x.sign = 0 THEN 0
    ELSE roundAt(x.sign, BigMulSmall(x.man, 10 ^ ndigits), -x.exp)

\* math.sqrt(3) = 1.7320508075688772 = 7800463371553962 * 2^-52.
SQRT3 == [sign |-> 1, man |-> <<3242, 8545, 10158, 1773>>, exp |-> -52]

(***************************************************************************)
(* Built-ins on collections and strings.                                   *)
(***************************************************************************)

\* sorted(): the elements of a finite set of integers in ascending order.
sorted(S) ==
    Tuple([i \in 1..Cardinality(S) |->
              CHOOSE x \in S : Cardinality({y \in S : y < x}) = i - 1])

\* str.upper() beyond ASCII (Unicode 14.0.0): the code points changed to one
\* other code point, as runs <<first, last, step, delta>>: every step-th
\* code point c from first to last becomes c + delta.
ToUpperRuns ==
    <<
      <<181, 181, 1, 743>>, <<224, 246, 1, -32>>, <<248, 254, 1, -32>>,
      <<255, 255, 1, 121>>, <<257, 303, 2, -1>>, <<305, 305, 1, -232>>,
      <<307, 311, 2, -1>>, <<314, 328, 2, -1>>, <<331, 375, 2, -1>>,
      <<378, 382, 2, -1>>, <<383, 383, 1, -300>>, <<384, 384, 1, 195>>,
      <<387, 389, 2, -1>>, <<392, 392, 1, -1>>, <<396, 396, 1, -1>>,
      <<402, 402, 1, -1>>, <<405, 405, 1, 97>>, <<409, 409, 1, -1>>,
      <<410, 410, 1, 163>>, <<414, 414, 1, 130>>, <<417, 421, 2, -1>>,
      <<424, 424, 1, -1>>, <<429, 429, 1, -1>>, <<432, 432, 1, -1>>,
      <<436, 438, 2, -1>>, <<441, 441, 1, -1>>, <<445, 445, 1, -1>>,
      <<447, 447, 1, 56>>, <<453, 453, 1, -1>>, <<454, 454, 1, -2>>,
      <<456, 456, 1, -1>>, <<457, 457, 1, -2>>, <<459, 459, 1, -1>>,
      <<460, 460, 1, -2>>, <<462, 476, 2, -1>>, <<477, 477, 1, -79>>,
      <<479, 495, 2, -1>>, <<498, 498, 1, -1>>, <<499, 499, 1, -2>>,
      <<501, 501, 1, -1>>, <<505, 543, 2, -1>>, <<547, 563, 2, -1>>,
      <<572, 572, 1, -1>>, <<575, 576, 1, 10815>>, <<578, 578, 1, -1>>,
      <<583, 591, 2, -1>>, <<592, 592, 1, 10783>>, <<593, 593, 1, 10780>>,
      <<594, 594, 1, 10782>>, <<595, 595, 1, -210>>, <<596, 596, 1, -206>>,
      <<598, 599, 1, -205>>, <<601, 601, 1, -202>>, <<603, 603, 1, -203>>,
      <<604, 604, 1, 42319>>, <<608, 608, 1, -205>>, <<609, 609, 1, 42315>>,
      <<611, 611, 1, -207>>, <<613, 613, 1, 42280>>, <<614, 614, 1, 42308>>,
      <<616, 616, 1, -209>>, <<617, 617, 1, -211>>, <<618, 618, 1, 42308>>,
      <<619, 619, 1, 10743>>, <<620, 620, 1, 42305>>, <<623, 623, 1, -211>>,
      <<625, 625, 1, 10749>>, <<626, 626, 1, -213>>, <<629, 629, 1, -214>>,
      <<637, 637, 1, 10727>>, <<640, 640, 1, -218>>, <<642, 642, 1, 42307>>,
      <<643, 643, 1, -218>>, <<647, 647, 1, 42282>>, <<648, 648, 1, -218>>,
      <<649, 649, 1, -69>>, <<650, 651, 1, -217>>, <<652, 652, 1, -71>>,
      <<658, 658, 1, -219>>, <<669, 669, 1, 42261>>, <<670, 670, 1, 42258>>,
      <<837, 837, 1, 84>>, <<881, 883, 2, -1>>, <<887, 887, 1, -1>>,
      <<891, 893, 1, 130>>, <<940, 940, 1, -38>>, <<941, 943, 1, -37>>,
      <<945, 961, 1, -32>>, <<962, 962, 1, -31>>, <<963, 971, 1, -32>>,
      <<972, 972, 1, -64>>, <<973, 974, 1, -63>>, <<976, 976, 1, -62>>,
      <<977, 977, 1, -57>>, <<981, 981, 1, -47>>, <<982, 982, 1, -54>>,
      <<983, 983, 1, -8>>, <<985, 1007, 2, -1>>, <<1008, 1008, 1, -86>>,
      <<1009, 1009, 1, -80>>, <<1010, 1010, 1, 7>>, <<1011, 1011, 1, -116>>,
      <<1013, 1013, 1, -96>>, <<1016, 1016, 1, -1>>, <<1019, 1019, 1, -1>>,
      <<1072, 1103, 1, -32>>, <<1104, 1119, 1, -80>>, <<1121, 1153, 2, -1>>,
      <<1163, 1215, 2, -1>>, <<1218, 1230, 2, -1>>, <<1231, 1231, 1, -15>>,
      <<1233, 1327, 2, -1>>, <<1377, 1414, 1, -48>>, <<4304, 4346, 1, 3008>>,
      <<4349, 4351, 1, 3008>>, <<5112, 5117, 1, -8>>,
      <<7296, 7296, 1, -6254>>, <<7297, 7297, 1, -6253>>,
      <<7298, 7298, 1, -6244>>, <<7299, 7300, 1, -6242>>,
      <<7301, 7301, 1, -6243>>, <<7302, 7302, 1, -6236>>,
      <<7303, 7303, 1, -6181>>, <<7304, 7304, 1, 35266>>,
      <<7545, 7545, 1, 35332>>, <<7549, 7549, 1, 3814>>,
      <<7566, 7566, 1, 35384>>, <<7681, 7829, 2, -1>>, <<7835, 7835, 1, -59>>,
      <<7841, 7935, 2, -1>>, <<7936, 7943, 1, 8>>, <<7952, 7957, 1, 8>>,
      <<7968, 7975, 1, 8>>, <<7984, 7991, 1, 8>>, <<8000, 8005, 1, 8>>,
      <<8017, 8023, 2, 8>>, <<8032, 8039, 1, 8>>, <<8048, 8049, 1, 74>>,
      <<8050, 8053, 1, 86>>, <<8054, 8055, 1, 100>>, <<8056, 8057, 1, 128>>,
      <<8058, 8059, 1, 112>>, <<8060, 8061, 1, 126>>, <<8112, 8113, 1, 8>>,
      <<8126, 8126, 1, -7205>>, <<8144, 8145, 1, 8>>, <<8160, 8161, 1, 8>>,
      <<8165, 8165, 1, 7>>, <<8526, 8526, 1, -28>>, <<8560, 8575, 1, -16>>,
      <<8580, 8580, 1, -1>>, <<9424, 9449, 1, -26>>, <<11312, 11359, 1, -48>>,
      <<11361, 11361, 1, -1>>, <<11365, 11365, 1, -10795>>,
      <<11366, 11366, 1, -10792>>, <<11368, 11372, 2, -1>>,
      <<11379, 11379, 1, -1>>, <<11382, 11382, 1, -1>>,
      <<11393, 11491, 2, -1>>, <<11500, 11502, 2, -1>>,
      <<11507, 11507, 1, -1>>, <<11520, 11557, 1, -7264>>,
      <<11559, 11559, 1, -7264>>, <<11565, 11565, 1, -7264>>,
      <<42561, 42605, 2, -1>>, <<42625, 42651, 2, -1>>,
      <<42787, 42799, 2, -1>>, <<42803, 42863, 2, -1>>,
      <<42874, 42876, 2, -1>>, <<42879, 42887, 2, -1>>,
      <<42892, 42892, 1, -1>>, <<42897, 42899, 2, -1>>,
      <<42900, 42900, 1, 48>>, <<42903, 42921, 2, -1>>,
      <<42933, 42947, 2, -1>>, <<42952, 42954, 2, -1>>,
      <<42961, 42961, 1, -1>>, <<42967, 42969, 2, -1>>,
      <<42998, 42998, 1, -1>>, <<43859, 43859, 1, -928>>,
      <<43888, 43967, 1, -38864>>, <<65345, 65370, 1, -32>>,
      <<66600, 66639, 1, -40>>, <<66776, 66811, 1, -40>>,
      <<66967, 66977, 1, -39>>, <<66979, 66993, 1, -39>>,
      <<66995, 67001, 1, -39>>, <<67003, 67004, 1, -39>>,
      <<68800, 68850, 1, -64>>, <<71872, 71903, 1, -32>>,
      <<93792, 93823, 1, -32>>, <<125218, 125251, 1, -34>>
    >>

\* The code points str.upper() changes to more than one code point.
ToUpperSpecial ==
    <<
      <<223, <<83, 83>>>>, <<329, <<700, 78>>>>, <<496, <<74, 780>>>>,
      <<912, <<921, 776, 769>>>>, <<944, <<933, 776, 769>>>>,
      <<1415, <<1333, 1362>>>>, <<7830, <<72, 817>>>>, <<7831, <<84, 776>>>>,
      <<7832, <<87, 778>>>>, <<7833, <<89, 778>>>>, <<7834, <<65, 702>>>>,
      <<8016, <<933, 787>>>>, <<8018, <<933, 787, 768>>>>,
      <<8020, <<933, 787, 769>>>>, <<8022, <<933, 787, 834>>>>,
      <<8064, <<7944, 921>>>>, <<8065, <<7945, 921>>>>,
      <<8066, <<7946, 921>>>>, <<8067, <<7947, 921>>>>,
      <<8068, <<7948, 921>>>>, <<8069, <<7949, 921>>>>,
      <<8070, <<7950, 921>>>>, <<8071, <<7951, 921>>>>,
      <<8072, <<7944, 921>>>>, <<8073, <<7945, 921>>>>,
      <<8074, <<7946, 921>>>>, <<8075, <<7947, 921>>>>,
      <<8076, <<7948, 921>>>>, <<8077, <<7949, 921>>>>,
      <<8078, <<7950, 921>>>>, <<8079, <<7951, 921>>>>,
      <<8080, <<7976, 921>>>>, <<8081, <<7977, 921>>>>,
      <<8082, <<7978, 921>>>>, <<8083, <<7979, 921>>>>,
      <<8084, <<7980, 921>>>>, <<8085, <<7981, 921>>>>,
      <<8086, <<7982, 921>>>>, <<8087, <<7983, 921>>>>,
      <<8088, <<7976, 921>>>>, <<8089, <<7977, 921>>>>,
      <<8090, <<7978, 921>>>>, <<8091, <<7979, 921>>>>,
      <<8092, <<7980, 921>>>>, <<8093, <<7981, 921>>>>,
      <<8094, <<7982, 921>>>>, <<8095, <<7983, 921>>>>,
      <<8096, <<8040, 921>>>>, <<8097, <<8041, 921>>>>,
      <<8098, <<8042, 921>>>>, <<8099, <<8043, 921>>>>,
      <<8100, <<8044, 921>>>>, <<8101, <<8045, 921>>>>,
      <<8102, <<8046, 921>>>>, <<8103, <<8047, 921>>>>,
      <<8104, <<8040, 921>>>>, <<8105, <<8041, 921>>>>,
      <<8106, <<8042, 921>>>>, <<8107, <<8043, 921>>>>,
      <<8108, <<8044, 921>>>>, <<8109, <<8045, 921>>>>,
      <<8110, <<8046, 921>>>>, <<8111, <<8047, 921>>>>,
      <<8114, <<8122, 921>>>>, <<8115, <<913, 921>>>>, <<8116, <<902, 921>>>>,
      <<8118, <<913, 834>>>>, <<8119, <<913, 834, 921>>>>,
      <<8124, <<913, 921>>>>, <<8130, <<8138, 921>>>>, <<8131, <<919, 921>>>>,
      <<8132, <<905, 921>>>>, <<8134, <<919, 834>>>>,
      <<8135, <<919, 834, 921>>>>, <<8140, <<919, 921>>>>,
      <<8146, <<921, 776, 768>>>>, <<8147, <<921, 776, 769>>>>,
      <<8150, <<921, 834>>>>, <<8151, <<921, 776, 834>>>>,
      <<8162, <<933, 776, 768>>>>, <<8163, <<933, 776, 769>>>>,
      <<8164, <<929, 787>>>>, <<8166, <<933, 834>>>>,
      <<8167, <<933, 776, 834>>>>, <<8178, <<8186, 921>>>>,
      <<8179, <<937, 921>>>>, <<8180, <<911, 921>>>>, <<8182, <<937, 834>>>>,
      <<8183, <<937, 834, 921>>>>, <<8188, <<937, 921>>>>,
      <<64256, <<70, 70>>>>, <<64257, <<70, 73>>>>, <<64258, <<70, 76>>>>,
      <<64259, <<70, 70, 73>>>>, <<64260, <<70, 70, 76>>>>,
      <<64261, <<83, 84>>>>, <<64262, <<83, 84>>>>, <<64275, <<1348, 1350>>>>,
      <<64276, <<1348, 1333>>>>, <<64277, <<1348, 1339>>>>,
      <<64278, <<1358, 1350>>>>, <<64279, <<1348, 1341>>>>
    >>

\* str.lower() beyond ASCII: the code points changed to one other code
\* point, as runs <<first, last, step, delta>>.
ToLowerRuns ==
    <<
      <<192, 214, 1, 32>>, <<216, 222, 1, 32>>, <<256, 302, 2, 1>>,
      <<306, 310, 2, 1>>, <<313, 327, 2, 1>>, <<330, 374, 2, 1>>,
      <<376, 376, 1, -121>>, <<377, 381, 2, 1>>, <<385, 385, 1, 210>>,
      <<386, 388, 2, 1>>, <<390, 390, 1, 206>>, <<391, 391, 1, 1>>,
      <<393, 394, 1, 205>>, <<395, 395, 1, 1>>, <<398, 398, 1, 79>>,
      <<399, 399, 1, 202>>, <<400, 400, 1, 203>>, <<401, 401, 1, 1>>,
      <<403, 403, 1, 205>>, <<404, 404, 1, 207>>, <<406, 406, 1, 211>>,
      <<407, 407, 1, 209>>, <<408, 408, 1, 1>>, <<412, 412, 1, 211>>,
      <<413, 413, 1, 213>>, <<415, 415, 1, 214>>, <<416, 420, 2, 1>>,
      <<422, 422, 1, 218>>, <<423, 423, 1, 1>>, <<425, 425, 1, 218>>,
      <<428, 428, 1, 1>>, <<430, 430, 1, 218>>, <<431, 431, 1, 1>>,
      <<433, 434, 1, 217>>, <<435, 437, 2, 1>>, <<439, 439, 1, 219>>,
      <<440, 440, 1, 1>>, <<444, 444, 1, 1>>, <<452, 452, 1, 2>>,
      <<453, 453, 1, 1>>, <<455, 455, 1, 2>>, <<456, 456, 1, 1>>,
      <<458, 458, 1, 2>>, <<459, 475, 2, 1>>, <<478, 494, 2, 1>>,
      <<497, 497, 1, 2>>, <<498, 500, 2, 1>>, <<502, 502, 1, -97>>,
      <<503, 503, 1, -56>>, <<504, 542, 2, 1>>, <<544, 544, 1, -130>>,
      <<546, 562, 2, 1>>, <<570, 570, 1, 10795>>, <<571, 571, 1, 1>>,
      <<573, 573, 1, -163>>, <<574, 574, 1, 10792>>, <<577, 577, 1, 1>>,
      <<579, 579, 1, -195>>, <<580, 580, 1, 69>>, <<581, 581, 1, 71>>,
      <<582, 590, 2, 1>>, <<880, 882, 2, 1>>, <<886, 886, 1, 1>>,
      <<895, 895, 1, 116>>, <<902, 902, 1, 38>>, <<904, 906, 1, 37>>,
      <<908, 908, 1, 64>>, <<910, 911, 1, 63>>, <<913, 929, 1, 32>>,
      <<931, 939, 1, 32>>, <<975, 975, 1, 8>>, <<984, 1006, 2, 1>>,
      <<1012, 1012, 1, -60>>, <<1015, 1015, 1, 1>>, <<1017, 1017, 1, -7>>,
      <<1018, 1018, 1, 1>>, <<1021, 1023, 1, -130>>, <<1024, 1039, 1, 80>>,
      <<1040, 1071, 1, 32>>, <<1120, 1152, 2, 1>>, <<1162, 1214, 2, 1>>,
      <<1216, 1216, 1, 15>>, <<1217, 1229, 2, 1>>, <<1232, 1326, 2, 1>>,
      <<1329, 1366, 1, 48>>, <<4256, 4293, 1, 7264>>, <<4295, 4295, 1, 7264>>,
      <<4301, 4301, 1, 7264>>, <<5024, 5103, 1, 38864>>, <<5104, 5109, 1, 8>>,
      <<7312, 7354, 1, -3008>>, <<7357, 7359, 1, -3008>>,
      <<7680, 7828, 2, 1>>, <<7838, 7838, 1, -7615>>, <<7840, 7934, 2, 1>>,
      <<7944, 7951, 1, -8>>, <<7960, 7965, 1, -8>>, <<7976, 7983, 1, -8>>,
      <<7992, 7999, 1, -8>>, <<8008, 8013, 1, -8>>, <<8025, 8031, 2, -8>>,
      <<8040, 8047, 1, -8>>, <<8072, 8079, 1, -8>>, <<8088, 8095, 1, -8>>,
      <<8104, 8111, 1, -8>>, <<8120, 8121, 1, -8>>, <<8122, 8123, 1, -74>>,
      <<8124, 8124, 1, -9>>, <<8136, 8139, 1, -86>>, <<8140, 8140, 1, -9>>,
      <<8152, 8153, 1, -8>>, <<8154, 8155, 1, -100>>, <<8168, 8169, 1, -8>>,
      <<8170, 8171, 1, -112>>, <<8172, 8172, 1, -7>>, <<8184, 8185, 1, -128>>,
      <<8186, 8187, 1, -126>>, <<8188, 8188, 1, -9>>,
      <<8486, 8486, 1, -7517>>, <<8490, 8490, 1, -8383>>,
      <<8491, 8491, 1, -8262>>, <<8498, 8498, 1, 28>>, <<8544, 8559, 1, 16>>,
      <<8579, 8579, 1, 1>>, <<9398, 9423, 1, 26>>, <<11264, 11311, 1, 48>>,
      <<11360, 11360, 1, 1>>, <<11362, 11362, 1, -10743>>,
      <<11363, 11363, 1, -3814>>, <<11364, 11364, 1, -10727>>,
      <<11367, 11371, 2, 1>>, <<11373, 11373, 1, -10780>>,
      <<11374, 11374, 1, -10749>>, <<11375, 11375, 1, -10783>>,
      <<11376, 11376, 1, -10782>>, <<11378, 11378, 1, 1>>,
      <<11381, 11381, 1, 1>>, <<11390, 11391, 1, -10815>>,
      <<11392, 11490, 2, 1>>, <<11499, 11501, 2, 1>>, <<11506, 11506, 1, 1>>,
      <<42560, 42604, 2, 1>>, <<42624, 42650, 2, 1>>, <<42786, 42798, 2, 1>>,
      <<42802, 42862, 2, 1>>, <<42873, 42875, 2, 1>>,
      <<42877, 42877, 1, -35332>>, <<42878, 42886, 2, 1>>,
      <<42891, 42891, 1, 1>>, <<42893, 42893, 1, -42280>>,
      <<42896, 42898, 2, 1>>, <<42902, 42920, 2, 1>>,
      <<42922, 42922, 1, -42308>>, <<42923, 42923, 1, -42319>>,
      <<42924, 42924, 1, -42315>>, <<42925, 42925, 1, -42305>>,
      <<42926, 42926, 1, -42308>>, <<42928, 42928, 1, -42258>>,
      <<42929, 42929, 1, -42282>>, <<42930, 42930, 1, -42261>>,
      <<42931, 42931, 1, 928>>, <<42932, 42946, 2, 1>>,
      <<42948, 42948, 1, -48>>, <<42949, 42949, 1, -42307>>,
      <<42950, 42950, 1, -35384>>, <<42951, 42953, 2, 1>>,
      <<42960, 42960, 1, 1>>, <<42966, 42968, 2, 1>>, <<42997, 42997, 1, 1>>,
      <<65313, 65338, 1, 32>>, <<66560, 66599, 1, 40>>,
      <<66736, 66771, 1, 40>>, <<66928, 66938, 1, 39>>,
      <<66940, 66954, 1, 39>>, <<66956, 66962, 1, 39>>,
      <<66964, 66965, 1, 39>>, <<68736, 68786, 1, 64>>,
      <<71840, 71871, 1, 32>>, <<93760, 93791, 1, 32>>,
      <<125184, 125217, 1, 34>>
    >>

\* The code points str.lower() changes to more than one code point.
ToLowerSpecial ==
    <<
      <<304, <<105, 775>>>>
    >>

\* The cased code points (lowercase, uppercase or titlecase), as ranges
\* <<first, last>>.
CasedRanges ==
    <<
      <<65, 90>>, <<97, 122>>, <<170, 170>>, <<181, 181>>, <<186, 186>>,
      <<192, 214>>, <<216, 246>>, <<248, 442>>, <<444, 447>>, <<452, 659>>,
      <<661, 696>>, <<704, 705>>, <<736, 740>>, <<837, 837>>, <<880, 883>>,
      <<886, 887>>, <<890, 893>>, <<895, 895>>, <<902, 902>>, <<904, 906>>,
      <<908, 908>>, <<910, 929>>, <<931, 1013>>, <<1015, 1153>>,
      <<1162, 1327>>, <<1329, 1366>>, <<1376, 1416>>, <<4256, 4293>>,
      <<4295, 4295>>, <<4301, 4301>>, <<4304, 4346>>, <<4349, 4351>>,
      <<5024, 5109>>, <<5112, 5117>>, <<7296, 7304>>, <<7312, 7354>>,
      <<7357, 7359>>, <<7424, 7615>>, <<7680, 7957>>, <<7960, 7965>>,
      <<7968, 8005>>, <<8008, 8013>>, <<8016, 8023>>, <<8025, 8025>>,
      <<8027, 8027>>, <<8029, 8029>>, <<8031, 8061>>, <<8064, 8116>>,
      <<8118, 8124>>, <<8126, 8126>>, <<8130, 8132>>, <<8134, 8140>>,
      <<8144, 8147>>, <<8150, 8155>>, <<8160, 8172>>, <<8178, 8180>>,
      <<8182, 8188>>, <<8305, 8305>>, <<8319, 8319>>, <<8336, 8348>>,
      <<8450, 8450>>, <<8455, 8455>>, <<8458, 8467>>, <<8469, 8469>>,
      <<8473, 8477>>, <<8484, 8484>>, <<8486, 8486>>, <<8488, 8488>>,
      <<8490, 8493>>, <<8495, 8500>>, <<8505, 8505>>, <<8508, 8511>>,
      <<8517, 8521>>, <<8526, 8526>>, <<8544, 8575>>, <<8579, 8580>>,
      <<9398, 9449>>, <<11264, 11492>>, <<11499, 11502>>, <<11506, 11507>>,
      <<11520, 11557>>, <<11559, 11559>>, <<11565, 11565>>, <<42560, 42605>>,
      <<42624, 42653>>, <<42786, 42887>>, <<42891, 42894>>, <<42896, 42954>>,
      <<42960, 42961>>, <<42963, 42963>>, <<42965, 42969>>, <<42997, 42998>>,
      <<43000, 43002>>, <<43824, 43866>>, <<43868, 43880>>, <<43888, 43967>>,
      <<64256, 64262>>, <<64275, 64279>>, <<65313, 65338>>, <<65345, 65370>>,
      <<66560, 66639>>, <<66736, 66771>>, <<66776, 66811>>, <<66928, 66938>>,
      <<66940, 66954>>, <<66956, 66962>>, <<66964, 66965>>, <<66967, 66977>>,
      <<66979, 66993>>, <<66995, 67001>>, <<67003, 67004>>, <<67456, 67456>>,
      <<67459, 67461>>, <<67463, 67504>>, <<67506, 67514>>, <<68736, 68786>>,
      <<68800, 68850>>, <<71840, 71903>>, <<93760, 93823>>,
      <<119808, 119892>>, <<119894, 119964>>, <<119966, 119967>>,
      <<119970, 119970>>, <<119973, 119974>>, <<119977, 119980>>,
      <<119982, 119993>>, <<119995, 119995>>, <<119997, 120003>>,
      <<120005, 120069>>, <<120071, 120074>>, <<120077, 120084>>,
      <<120086, 120092>>, <<120094, 120121>>, <<120123, 120126>>,
      <<120128, 120132>>, <<120134, 120134>>, <<120138, 120144>>,
      <<120146, 120485>>, <<120488, 120512>>, <<120514, 120538>>,
      <<120540, 120570>>, <<120572, 120596>>, <<120598, 120628>>,
      <<120630, 120654>>, <<120656, 120686>>, <<120688, 120712>>,
      <<120714, 120744>>, <<120746, 120770>>, <<120772, 120779>>,
      <<122624, 122633>>, <<122635, 122654>>, <<125184, 125251>>,
      <<127280, 127305>>, <<127312, 127337>>, <<127344, 127369>>
    >>

\* The code points a word may contain without ending it for the final
\* sigma rule, as ranges <<first, last>>.
CaseIgnorableRanges ==
    <<
      <<39, 39>>, <<46, 46>>, <<58, 58>>, <<94, 94>>, <<96, 96>>,
      <<168, 168>>, <<173, 173>>, <<175, 175>>, <<180, 180>>, <<183, 184>>,
      <<688, 879>>, <<884, 885>>, <<890, 890>>, <<900, 901>>, <<903, 903>>,
      <<1155, 1161>>, <<1369, 1369>>, <<1375, 1375>>, <<1425, 1469>>,
      <<1471, 1471>>, <<1473, 1474>>, <<1476, 1477>>, <<1479, 1479>>,
      <<1524, 1524>>, <<1536, 1541>>, <<1552, 1562>>, <<1564, 1564>>,
      <<1600, 1600>>, <<1611, 1631>>, <<1648, 1648>>, <<1750, 1757>>,
      <<1759, 1768>>, <<1770, 1773>>, <<1807, 1807>>, <<1809, 1809>>,
      <<1840, 1866>>, <<1958, 1968>>, <<2027, 2037>>, <<2042, 2042>>,
      <<2045, 2045>>, <<2070, 2093>>, <<2137, 2139>>, <<2184, 2184>>,
      <<2192, 2193>>, <<2200, 2207>>, <<2249, 2306>>, <<2362, 2362>>,
      <<2364, 2364>>, <<2369, 2376>>, <<2381, 2381>>, <<2385, 2391>>,
      <<2402, 2403>>, <<2417, 2417>>, <<2433, 2433>>, <<2492, 2492>>,
      <<2497, 2500>>, <<2509, 2509>>, <<2530, 2531>>, <<2558, 2558>>,
      <<2561, 2562>>, <<2620, 2620>>, <<2625, 2626>>, <<2631, 2632>>,
      <<2635, 2637>>, <<2641, 2641>>, <<2672, 2673>>, <<2677, 2677>>,
      <<2689, 2690>>, <<2748, 2748>>, <<2753, 2757>>, <<2759, 2760>>,
      <<2765, 2765>>, <<2786, 2787>>, <<2810, 2815>>, <<2817, 2817>>,
      <<2876, 2876>>, <<2879, 2879>>, <<2881, 2884>>, <<2893, 2893>>,
      <<2901, 2902>>, <<2914, 2915>>, <<2946, 2946>>, <<3008, 3008>>,
      <<3021, 3021>>, <<3072, 3072>>, <<3076, 3076>>, <<3132, 3132>>,
      <<3134, 3136>>, <<3142, 3144>>, <<3146, 3149>>, <<3157, 3158>>,
      <<3170, 3171>>, <<3201, 3201>>, <<3260, 3260>>, <<3263, 3263>>,
      <<3270, 3270>>, <<3276, 3277>>, <<3298, 3299>>, <<3328, 3329>>,
      <<3387, 3388>>, <<3393, 3396>>, <<3405, 3405>>, <<3426, 3427>>,
      <<3457, 3457>>, <<3530, 3530>>, <<3538, 3540>>, <<3542, 3542>>,
      <<3633, 3633>>, <<3636, 3642>>, <<3654, 3662>>, <<3761, 3761>>,
      <<3764, 3772>>, <<3782, 3782>>, <<3784, 3789>>, <<3864, 3865>>,
      <<3893, 3893>>, <<3895, 3895>>, <<3897, 3897>>, <<3953, 3966>>,
      <<3968, 3972>>, <<3974, 3975>>, <<3981, 3991>>, <<3993, 4028>>,
      <<4038, 4038>>, <<4141, 4144>>, <<4146, 4151>>, <<4153, 4154>>,
      <<4157, 4158>>, <<4184, 4185>>, <<4190, 4192>>, <<4209, 4212>>,
      <<4226, 4226>>, <<4229, 4230>>, <<4237, 4237>>, <<4253, 4253>>,
      <<4348, 4348>>, <<4957, 4959>>, <<5906, 5908>>, <<5938, 5939>>,
      <<5970, 5971>>, <<6002, 6003>>, <<6068, 6069>>, <<6071, 6077>>,
      <<6086, 6086>>, <<6089, 6099>>, <<6103, 6103>>, <<6109, 6109>>,
      <<6155, 6159>>, <<6211, 6211>>, <<6277, 6278>>, <<6313, 6313>>,
      <<6432, 6434>>, <<6439, 6440>>, <<6450, 6450>>, <<6457, 6459>>,
      <<6679, 6680>>, <<6683, 6683>>, <<6742, 6742>>, <<6744, 6750>>,
      <<6752, 6752>>, <<6754, 6754>>, <<6757, 6764>>, <<6771, 6780>>,
      <<6783, 6783>>, <<6823, 6823>>, <<6832, 6862>>, <<6912, 6915>>,
      <<6964, 6964>>, <<6966, 6970>>, <<6972, 6972>>, <<6978, 6978>>,
      <<7019, 7027>>, <<7040, 7041>>, <<7074, 7077>>, <<7080, 7081>>,
      <<7083, 7085>>, <<7142, 7142>>, <<7144, 7145>>, <<7149, 7149>>,
      <<7151, 7153>>, <<7212, 7219>>, <<7222, 7223>>, <<7288, 7293>>,
      <<7376, 7378>>, <<7380, 7392>>, <<7394, 7400>>, <<7405, 7405>>,
      <<7412, 7412>>, <<7416, 7417>>, <<7468, 7530>>, <<7544, 7544>>,
      <<7579, 7679>>, <<8125, 8125>>, <<8127, 8129>>, <<8141, 8143>>,
      <<8157, 8159>>, <<8173, 8175>>, <<8189, 8190>>, <<8203, 8207>>,
      <<8216, 8217>>, <<8228, 8228>>, <<8231, 8231>>, <<8234, 8238>>,
      <<8288, 8292>>, <<8294, 8303>>, <<8305, 8305>>, <<8319, 8319>>,
      <<8336, 8348>>, <<8400, 8432>>, <<11388, 11389>>, <<11503, 11505>>,
      <<11631, 11631>>, <<11647, 11647>>, <<11744, 11775>>, <<11823, 11823>>,
      <<12293, 12293>>, <<12330, 12333>>, <<12337, 12341>>, <<12347, 12347>>,
      <<12441, 12446>>, <<12540, 12542>>, <<40981, 40981>>, <<42232, 42237>>,
      <<42508, 42508>>, <<42607, 42610>>, <<42612, 42621>>, <<42623, 42623>>,
      <<42652, 42655>>, <<42736, 42737>>, <<42752, 42785>>, <<42864, 42864>>,
      <<42888, 42890>>, <<42994, 42996>>, <<43000, 43001>>, <<43010, 43010>>,
      <<43014, 43014>>, <<43019, 43019>>, <<43045, 43046>>, <<43052, 43052>>,
      <<43204, 43205>>, <<43232, 43249>>, <<43263, 43263>>, <<43302, 43309>>,
      <<43335, 43345>>, <<43392, 43394>>, <<43443, 43443>>, <<43446, 43449>>,
      <<43452, 43453>>, <<43471, 43471>>, <<43493, 43494>>, <<43561, 43566>>,
      <<43569, 43570>>, <<43573, 43574>>, <<43587, 43587>>, <<43596, 43596>>,
      <<43632, 43632>>, <<43644, 43644>>, <<43696, 43696>>, <<43698, 43700>>,
      <<43703, 43704>>, <<43710, 43711>>, <<43713, 43713>>, <<43741, 43741>>,
      <<43756, 43757>>, <<43763, 43764>>, <<43766, 43766>>, <<43867, 43871>>,
      <<43881, 43883>>, <<44005, 44005>>, <<44008, 44008>>, <<44013, 44013>>,
      <<64286, 64286>>, <<64434, 64450>>, <<65024, 65039>>, <<65043, 65043>>,
      <<65056, 65071>>, <<65106, 65106>>, <<65109, 65109>>, <<65279, 65279>>,
      <<65287, 65287>>, <<65294, 65294>>, <<65306, 65306>>, <<65342, 65342>>,
      <<65344, 65344>>, <<65392, 65392>>, <<65438, 65439>>, <<65507, 65507>>,
      <<65529, 65531>>, <<66045, 66045>>, <<66272, 66272>>, <<66422, 66426>>,
      <<67456, 67461>>, <<67463, 67504>>, <<67506, 67514>>, <<68097, 68099>>,
      <<68101, 68102>>, <<68108, 68111>>, <<68152, 68154>>, <<68159, 68159>>,
      <<68325, 68326>>, <<68900, 68903>>, <<69291, 69292>>, <<69446, 69456>>,
      <<69506, 69509>>, <<69633, 69633>>, <<69688, 69702>>, <<69744, 69744>>,
      <<69747, 69748>>, <<69759, 69761>>, <<69811, 69814>>, <<69817, 69818>>,
      <<69821, 69821>>, <<69826, 69826>>, <<69837, 69837>>, <<69888, 69890>>,
      <<69927, 69931>>, <<69933, 69940>>, <<70003, 70003>>, <<70016, 70017>>,
      <<70070, 70078>>, <<70089, 70092>>, <<70095, 70095>>, <<70191, 70193>>,
      <<70196, 70196>>, <<70198, 70199>>, <<70206, 70206>>, <<70367, 70367>>,
      <<70371, 70378>>, <<70400, 70401>>, <<70459, 70460>>, <<70464, 70464>>,
      <<70502, 70508>>, <<70512, 70516>>, <<70712, 70719>>, <<70722, 70724>>,
      <<70726, 70726>>, <<70750, 70750>>, <<70835, 70840>>, <<70842, 70842>>,
      <<70847, 70848>>, <<70850, 70851>>, <<71090, 71093>>, <<71100, 71101>>,
      <<71103, 71104>>, <<71132, 71133>>, <<71219, 71226>>, <<71229, 71229>>,
      <<71231, 71232>>, <<71339, 71339>>, <<71341, 71341>>, <<71344, 71349>>,
      <<71351, 71351>>, <<71453, 71455>>, <<71458, 71461>>, <<71463, 71467>>,
      <<71727, 71735>>, <<71737, 71738>>, <<71995, 71996>>, <<71998, 71998>>,
      <<72003, 72003>>, <<72148, 72151>>, <<72154, 72155>>, <<72160, 72160>>,
      <<72193, 72202>>, <<72243, 72248>>, <<72251, 72254>>, <<72263, 72263>>,
      <<72273, 72278>>, <<72281, 72283>>, <<72330, 72342>>, <<72344, 72345>>,
      <<72752, 72758>>, <<72760, 72765>>, <<72767, 72767>>, <<72850, 72871>>,
      <<72874, 72880>>, <<72882, 72883>>, <<72885, 72886>>, <<73009, 73014>>,
      <<73018, 73018>>, <<73020, 73021>>, <<73023, 73029>>, <<73031, 73031>>,
      <<73104, 73105>>, <<73109, 73109>>, <<73111, 73111>>, <<73459, 73460>>,
      <<78896, 78904>>, <<92912, 92916>>, <<92976, 92982>>, <<92992, 92995>>,
      <<94031, 94031>>, <<94095, 94111>>, <<94176, 94177>>, <<94179, 94180>>,
      <<110576, 110579>>, <<110581, 110587>>, <<110589, 110590>>,
      <<113821, 113822>>, <<113824, 113827>>, <<118528, 118573>>,
      <<118576, 118598>>, <<119143, 119145>>, <<119155, 119170>>,
      <<119173, 119179>>, <<119210, 119213>>, <<119362, 119364>>,
      <<121344, 121398>>, <<121403, 121452>>, <<121461, 121461>>,
      <<121476, 121476>>, <<121499, 121503>>, <<121505, 121519>>,
      <<122880, 122886>>, <<122888, 122904>>, <<122907, 122913>>,
      <<122915, 122916>>, <<122918, 122922>>, <<123184, 123197>>,
      <<123566, 123566>>, <<123628, 123631>>, <<125136, 125142>>,
      <<125252, 125259>>, <<127995, 127999>>, <<917505, 917505>>,
      <<917536, 917631>>, <<917760, 917999>>
    >>

\* Code point c lies in one of the ranges.
InRanges(c, ranges) ==
    \E k \in 1..Len(ranges) : ranges[k][1] <= c /\ c <= ranges[k][2]

IsCased(c) == InRanges(c, CasedRanges)

IsCaseIgnorable(c) == InRanges(c, CaseIgnorableRanges)

\* Code point c is one of those the run changes.
InRun(c, run) == run[1] <= c /\ c <= run[2] /\ (c - run[1]) % run[3] = 0

\* The code points that c becomes under the case mapping of the tables: c
\* itself when they do not change it.
Recase(c, runs, special) ==
    IF \E k \in 1..Len(special) : special[k][1] = c
    THEN special[CHOOSE k \in 1..Len(special) : special[k][1] = c][2]
    ELSE IF \E k \in 1..Len(runs) : InRun(c, runs[k])
    THEN <<c + runs[CHOOSE k \in 1..Len(runs) : InRun(c, runs[k])][4]>>
    ELSE <<c>>

\* The uppercase of code point c: a to z become A to Z, the rest of ASCII
\* stays, the other code points follow the tables.
ToUpperFull(c) ==
    IF c < 128 THEN (IF 97 <= c /\ c <= 122 THEN <<c - 32>> ELSE <<c>>)
    ELSE Recase(c, ToUpperRuns, ToUpperSpecial)

\* The lowercase of code point c.
ToLowerFull(c) ==
    IF c < 128 THEN (IF 65 <= c /\ c <= 90 THEN <<c + 32>> ELSE <<c>>)
    ELSE Recase(c, ToLowerRuns, ToLowerSpecial)

\* The strings of parts, one after the other.
RECURSIVE join(_)
join(parts) ==
    IF parts = <<>> THEN <<>> ELSE Head(parts) \o join(Tail(parts))

\* str.upper(): every code point by its uppercase.
upper(s) == join(Tuple([i \in 1..Len(s) |-> ToUpperFull(s[i])]))

\* The capital sigma at position i of s ends a word: a cased code point
\* comes before it and none after it, case-ignorable code points skipped.
final_sigma(s, i) ==
    LET before == {j \in 1..(i - 1) : ~IsCaseIgnorable(s[j])}
        after == {j \in (i + 1)..Len(s) : ~IsCaseIgnorable(s[j])}
    IN  /\ before # {}
        /\ IsCased(s[CHOOSE j \in before : \A k \in before : k <= j])
        /\ \/ after = {}
           \/ ~IsCased(s[CHOOSE j \in after : \A k \in after : j <= k])

\* The lowercase of the code point at position i of s: a capital sigma
\* (931) becomes a final sigma (962) at the end of a word and a small
\* sigma (963) elsewhere.
lower_ucs4(s, i) ==
    IF s[i] = 931 THEN (IF final_sigma(s, i) THEN <<962>> ELSE <<963>>)
    ELSE ToLowerFull(s[i])

\* str.lower(): every code point by its lowercase.
lower(s) == join(Tuple([i \in 1..Len(s) |-> lower_ucs4(s, i)]))

(***************************************************************************)
(* Outcomes of a call.                                                     *)
(***************************************************************************)
Raise(exc, msg) == [kind |-> "raise", exception |-> exc, message |-> msg]

Return(v) == [kind |-> "return", value |-> v]

NoResult == [kind |-> "none"]

(***************************************************************************)
(* calculate_current(load_value, load_type, voltage, power_factor)         *)
(* load_value in thousandths, power_factor in hundredths; the value        *)
(* returned in thousandths.                                                *)
(***************************************************************************)

\* load_kw (floats): load_value * 0.746 for HP, else load_value.
load_kw(load_value, load_type) ==
    IF load_type = "HP" THEN fmul(load_value, Dec(746, 1000)) ELSE load_value

\* current (floats, voltage an int):
\* (load_kw * 1000) / (voltage * power_factor) at 230 V,
\* (load_kw * 1000) / (math.sqrt(3) * voltage * power_factor) otherwise.
current(kw, voltage, power_factor) ==
    IF voltage = 230
    THEN fdiv(fmul(kw, FromInt(1000)), fmul(FromInt(voltage), power_factor))
    ELSE fdiv(fmul(kw, FromInt(1000)),
              fmul(fmul(SQRT3, FromInt(voltage)), power_factor))

\* round(current, 2), in hundredths of an Ampere.
current_rounded(kw, voltage, power_factor) ==
    round(current(kw, voltage, power_factor), 2)

\* not 0 < power_factor <= 1.
power_factor_invalid(power_factor) ==
    ~(fcmp(Zero, power_factor) < 0 /\ fcmp(power_factor, FromInt(1)) <= 0)

\* Variant of calculate_current: the Amps shortcut taken before validation.
calculate_current_amps_first(load_value, load_type, voltage, power_factor) ==
    IF load_type = "Amps"
    THEN Return(load_value)
    ELSE IF load_type \notin {"kW", "HP"}
    THEN Raise("ValueError", "load_type must be 'kW', 'HP', or 'Amps'")
    ELSE IF voltage \notin {230, 415}
    THEN Raise("ValueError", "voltage must be 230V (single-phase) or 415V (three-phase)")
    ELSE IF power_factor_invalid(Dec(power_factor, 100))
    THEN Raise("ValueError", "power_factor must be between 0 and 1")
    ELSE Return(10 * current_rounded(load_kw(Dec(load_value, 1000), load_type),
                                     voltage, Dec(power_factor, 100)))

\* Variant of calculate_current: the Amps value rounded to 2 decimals too.
calculate_current_amps_rounded(load_value, load_type, voltage, power_factor) ==
    IF load_type \notin {"kW", "HP", "Amps"}
    THEN Raise("ValueError", "load_type must be 'kW', 'HP', or 'Amps'")
    ELSE IF voltage \notin {230, 415}
    THEN Raise("ValueError", "voltage must be 230V (single-phase) or 415V (three-phase)")
    ELSE IF power_factor_invalid(Dec(power_factor, 100))
    THEN Raise("ValueError", "power_factor must be between 0 and 1")
    ELSE IF load_type = "Amps"
    THEN Return(10 * round(Dec(load_value, 1000), 2))
    ELSE Return(10 * current_rounded(load_kw(Dec(load_value, 1000), load_type),
                                     voltage, Dec(power_factor, 100)))

calculate_current(load_value, load_type, voltage, power_factor) ==
    IF load_type \notin {"kW", "HP", "Amps"}
    THEN Raise("ValueError", "load_type must be 'kW', 'HP', or 'Amps'")
    ELSE IF voltage \notin {230, 415}
    THEN Raise("ValueError", "voltage must be 230V (single-phase) or 415V (three-phase)")
    ELSE IF power_factor_invalid(Dec(power_factor, 100))
    THEN Raise("ValueError", "power_factor must be between 0 and 1")
    ELSE IF load_type = "Amps"
    THEN Return(load_value)
    ELSE Return(10 * current_rounded(load_kw(Dec(load_value, 1000), load_type),
                                     voltage, Dec(power_factor, 100)))

(***************************************************************************)
(* select_cable(calculated_current, conductor_type, installation_method,   *)
(*              length, derating_factor, max_voltage_drop_percent, voltage)*)
(***************************************************************************)

current_dict_of(conductor_type) ==
    IF upper(conductor_type) = CU THEN COPPER_CURRENT_RATINGS
    ELSE ALUMINIUM_CURRENT_RATINGS

vd_dict_of(conductor_type) ==
    IF upper(conductor_type) = CU THEN COPPER_VOLTAGE_DROP_FACTORS
    ELSE ALUMINIUM_VOLTAGE_DROP_FACTORS

\* Variant of derated_capacity: the derating factor not applied.
derated_capacity_not_derated(base_capacity, derating_factor) ==
    FromInt(base_capacity)

\* derated_capacity = base_capacity * derating_factor (an int by a float).
derated_capacity(base_capacity, derating_factor) ==
    fmul(FromInt(base_capacity), derating_factor)

\* Variant of capacity_ok: the capacity rounded to 2 decimals before the test.
capacity_ok_rounded(derated, calculated_current) ==
    fcmp(Dec(round(derated, 2), 100), calculated_current) >= 0

\* derated_capacity >= calculated_current.
capacity_ok(derated, calculated_current) ==
    fcmp(derated, calculated_current) >= 0

\* voltage_drop_mv = vd_factor * calculated_current * length.
voltage_drop_mv(vd_factor, calculated_current, length) ==
    fmul(fmul(vd_factor, calculated_current), FromInt(length))

\* voltage_drop_percent = (voltage_drop_mv / (voltage * 1000)) * 100.
voltage_drop_percent(mv, voltage) ==
    fmul(fdiv(mv, FromInt(voltage * 1000)), FromInt(100))

\* Variant of voltage_drop_ok: the comparison the wrong way round.
voltage_drop_ok_inverted(percent, max_percent) ==
    ~(fcmp(percent, max_percent) <= 0)

\* voltage_drop_percent <= max_voltage_drop_percent.
voltage_drop_ok(percent, max_percent) ==
    fcmp(percent, max_percent) <= 0

\* The record returned for a qualifying size.
Selected(size, derated, percent, mv, length) ==
    [kind |-> "return",
     size |-> size,
     actual_capacity |-> round(derated, 2),
     voltage_drop |-> round(percent, 2),
     voltage_drop_mv |-> round(fdiv(mv, FromInt(length)), 3),
     status |-> "Selected",
     limit |-> None]

\* The record returned when the scan ends; its status text carries the limit.
NotFound(max_percent) ==
    [kind |-> "return",
     size |-> None,
     actual_capacity |-> None,
     voltage_drop |-> None,
     voltage_drop_mv |-> None,
     status |-> "No suitable cable found. Max voltage drop exceeded.",
     limit |-> max_percent]

\* The pass of the loop body for one size: the record returned, the
\* exception raised, or Continue when the size is skipped.
Continue == [kind |-> "continue"]

\* calculated_current, derating_factor and max_percent are floats.
body(size, current_dict, vd_dict, method_key, calculated_current, length, derating_factor, max_percent, voltage) ==
    IF size \notin DOMAIN current_dict
       \/ method_key \notin DOMAIN current_dict[size]
    THEN Raise("KeyError", "current_dict")
    ELSE
      LET derated == derated_capacity(current_dict[size][method_key],
                                      derating_factor)
      IN
      IF ~capacity_ok(derated, calculated_current) THEN Continue
      ELSE IF size \notin DOMAIN vd_dict THEN Raise("KeyError", "vd_dict")
      ELSE
        LET mv == voltage_drop_mv(Dec(vd_dict[size], 100),
                                  calculated_current, length)
        IN
        IF voltage = 0
        THEN Raise("ZeroDivisionError", "voltage * 1000")
        ELSE
          LET percent == voltage_drop_percent(mv, voltage)
          IN
          IF ~voltage_drop_ok(percent, max_percent) THEN Continue
          ELSE IF length = 0
          THEN Raise("ZeroDivisionError", "voltage_drop_mv / length")
          ELSE Selected(size, derated, percent, mv, length)

\* The for loop over sorted(current_dict.keys()) and the return after it:
\* the outcome of the first pass that returns or raises, NotFound when every
\* size is skipped.  limit is the decimal of max_percent.
for_loop(sizes, current_dict, vd_dict, method_key, calculated_current, length, derating_factor, max_percent, voltage, limit) ==
    LET pass == Tuple([i \in 1..Len(sizes) |->
                          body(sizes[i], current_dict, vd_dict, method_key,
                               calculated_current, length, derating_factor,
                               max_percent, voltage)])
        stops == {i \in 1..Len(sizes) : pass[i].kind # "continue"}
    IN  IF stops = {} THEN NotFound(limit)
        ELSE pass[CHOOSE i \in stops : \A j \in stops : i <= j]

select_cable(calculated_current, conductor_type, installation_method, length, derating_factor, max_voltage_drop_percent, voltage) ==
    IF upper(conductor_type) \notin {CU, AL}
    THEN Raise("ValueError", "conductor_type must be 'Cu' or 'Al'")
    ELSE IF lower(installation_method) \notin {GROUND, FREE_AIR, PIPE_DUCT}
    THEN Raise("ValueError",
               "installation_method must be 'ground', 'free_air', or 'pipe_duct'")
    ELSE for_loop(sorted(DOMAIN current_dict_of(conductor_type)),
                  current_dict_of(conductor_type), vd_dict_of(conductor_type),
                  lower(installation_method), Dec(calculated_current, 1000),
                  length, Dec(derating_factor, 10000),
                  Dec(max_voltage_drop_percent, 1000), voltage,
                  max_voltage_drop_percent)

(***************************************************************************)
(* Inputs of the calls.                                                    *)
(***************************************************************************)
MaxCurrentSteps == 4
MaxLengthSteps == 2
MaxLoadSteps == 12

\* Currents of the grid: 100 A steps, and currents that meet the capacity of
\* a size exactly: 63 A (Cu 10 mm2 in ground; Al 35 mm2 in pipe or duct
\* derated by 0.7), 11.9 A = 17 x 0.7 (Cu 1.5 mm2), 285.6 A = 408 x 0.7
\* (Al 400 mm2), and 13.812 A (a third decimal).
GridCurrents ==
    {100000 * i : i \in 1..MaxCurrentSteps} \cup {63000, 11900, 13812, 285600}

\* "Cu", "Al"
GridConductors == {<<67, 117>>, <<65, 108>>}

GridMethods == {GROUND, FREE_AIR, PIPE_DUCT}

GridLengths == {25 * i : i \in 1..MaxLengthSteps} \cup {500}

GridDeratingFactors == {7000, 8125, 10000}

GridVoltages == {230, 415}

\* Calls inside the documented domain, with a limit of 3 %.
SelectGrid ==
    [calculated_current : GridCurrents,
     conductor_type : GridConductors,
     installation_method : GridMethods,
     length : GridLengths,
     derating_factor : GridDeratingFactors,
     max_voltage_drop_percent : {3000},
     voltage : GridVoltages]

\* Calls that meet the voltage-drop limit exactly: 103.75 A over 50 m at
\* 415 V and a limit of 3.5 % (Al 25 mm2 drops exactly 3.5 %).
SelectAtLimit ==
    [calculated_current : {103750},
     conductor_type : GridConductors,
     installation_method : GridMethods,
     length : {50},
     derating_factor : {10000},
     max_voltage_drop_percent : {3500},
     voltage : {415}]

\* Calls at and beyond the edges of the domain: tags in other cases ('al',
\* 'cU', 'Free_Air', 'PIPE_DUCT') and unknown tags ('Fe', 'tray'), current,
\* length, derating factor and voltage 0, derating factor 1.25.
EdgeConductors ==
    {<<67, 117>>, <<97, 108>>, <<99, 85>>, <<70, 101>>}

EdgeMethods ==
    {GROUND,
     <<70, 114, 101, 101, 95, 65, 105, 114>>,
     <<80, 73, 80, 69, 95, 68, 85, 67, 84>>,
     <<116, 114, 97, 121>>}

SelectEdge ==
    [calculated_current : {0, 50000},
     conductor_type : EdgeConductors,
     installation_method : EdgeMethods,
     length : {0, 25},
     derating_factor : {0, 10000, 12500},
     max_voltage_drop_percent : {3000},
     voltage : {0, 415}]

\* Calls with tags beyond ASCII: 'c\u00fc', '\u00c5L' and 'GR\u00d6UND',
\* '\u0391\u03a3' (a capital sigma at the end of a word).
SelectUnicode ==
    [calculated_current : {50000},
     conductor_type : {<<67, 117>>, <<99, 252>>, <<197, 76>>},
     installation_method : {GROUND, <<71, 82, 214, 85, 78, 68>>, <<913, 931>>},
     length : {25},
     derating_factor : {10000},
     max_voltage_drop_percent : {3000},
     voltage : {415}]

SelectArgs == SelectGrid \cup SelectAtLimit \cup SelectEdge \cup SelectUnicode

\* Load values: 0.5 steps (kW, HP or A); 632.5 HP and its equivalent
\* 471.845 kW; 5.06 and 39.1 (HP) and 2.047 (kW), whose currents at 230 V
\* and power factor 0.8 end in a 5 at the third decimal; 0.023; -1.
LoadValues ==
    {500 * i : i \in 1..MaxLoadSteps}
        \cup {632500, 471845, 5060, 39100, 2047, 23, -1000}

LoadTypes == {"kW", "HP", "Amps", "kVA"}

LoadVoltages == {230, 400, 415}

PowerFactors == {0, 70, 80, 90, 100, 105}

LoadArgs ==
    [load_value : LoadValues,
     load_type : LoadTypes,
     voltage : LoadVoltages,
     power_factor : PowerFactors]

(***************************************************************************)
(* The state machine: one call of one of the two functions.                *)
(***************************************************************************)
Init ==
    /\ pc = "ready"
    /\ result = NoResult
    /\ \/ op = "calculate_current" /\ args \in LoadArgs
       \/ op = "select_cable" /\ args \in SelectArgs

CallSelectCable ==
    /\ pc = "ready"
    /\ op = "select_cable"
    /\ result' = select_cable(args.calculated_current, args.conductor_type,
                              args.installation_method, args.length,
                              args.derating_factor,
                              args.max_voltage_drop_percent, args.voltage)
    /\ pc' = "done"
    /\ UNCHANGED <<op, args>>

CallCalculateCurrent ==
    /\ pc = "ready"
    /\ op = "calculate_current"
    /\ result' = calculate_current(args.load_value, args.load_type,
                                   args.voltage, args.power_factor)
    /\ pc' = "done"
    /\ UNCHANGED <<op, args>>

Next == CallSelectCable \/ CallCalculateCurrent

Spec == Init /\ [][Next]_vars


(***************************************************************************)
(* Vocabulary of the properties.  The criteria of the specification are    *)
(* evaluated on the decimal arguments in exact integer arithmetic; the     *)
(* values the program compares are the floats of the model.                *)
(***************************************************************************)
Done(o) == pc = "done" /\ op = o

IsSelected(r) == r.kind = "return" /\ r.status = "Selected"

IsNotFound(r) == r.kind = "return" /\ r.status # "Selected"

\* The documented domain of select_cable (tags as the code accepts them).
TagsValid(a) ==
    /\ upper(a.conductor_type) \in {CU, AL}
    /\ lower(a.installation_method) \in {GROUND, FREE_AIR, PIPE_DUCT}

NumbersValid(a) ==
    /\ a.calculated_current > 0
    /\ a.length > 0
    /\ a.derating_factor > 0 /\ a.derating_factor <= 10000
    /\ a.max_voltage_drop_percent > 0
    /\ a.voltage \in {230, 415}

InDomain(a) == TagsValid(a) /\ NumbersValid(a)

Catalog(a) == DOMAIN current_dict_of(a.conductor_type)

BaseCapacity(a, s) ==
    current_dict_of(a.conductor_type)[s][lower(a.installation_method)]

VdFactor(a, s) == vd_dict_of(a.conductor_type)[s]

\* Capacity criterion: base capacity x derating factor >= current.
CapacityCriterion(a, s) ==
    BaseCapacity(a, s) * a.derating_factor >= 10 * a.calculated_current

\* Voltage-drop criterion:
\* factor x current x length / (voltage x 1000) x 100 <= max percent,
\* that is factor x current x length <= max percent x voltage x 1000 in the
\* units of the arguments.
VoltageDropCriterion(a, s) ==
    BigLeq(BigMulSmall(BigFromInt(VdFactor(a, s) * a.calculated_current),
                       a.length),
           BigMulSmall(BigFromInt(a.max_voltage_drop_percent * a.voltage),
                       1000))

Qualifies(a, s) == CapacityCriterion(a, s) /\ VoltageDropCriterion(a, s)

\* The derated capacity the program computes for size s.
ComputedCapacity(a, s) ==
    derated_capacity(BaseCapacity(a, s), Dec(a.derating_factor, 10000))

\* The voltage drop in mV the program computes for size s.
ComputedDrop(a, s) ==
    voltage_drop_mv(Dec(VdFactor(a, s), 100), Dec(a.calculated_current, 1000),
                    a.length)

\* The voltage-drop percent the program computes for size s.
ComputedPercent(a, s) == voltage_drop_percent(ComputedDrop(a, s), a.voltage)

\* n hundredths of a percent is the voltage-drop percent of size s rounded
\* to 2 decimals: |n - percent| <= 1/2 hundredth.
IsPercentRounded(a, s, n) ==
    LET drop == BigMulSmall(BigFromInt(VdFactor(a, s) * a.calculated_current),
                            2 * a.length)
    IN  /\ n >= 0
        /\ n > 0 => BigLeq(BigMulSmall(BigFromInt((2 * n - 1) * a.voltage),
                                       10000), drop)
        /\ BigLeq(drop, BigMulSmall(BigFromInt((2 * n + 1) * a.voltage), 10000))

\* The worked example: Cu, ground, 63 A, 50 m, derating 1.0, 3 %, 415 V.
Example ==
    [calculated_current |-> 63000, conductor_type |-> <<67, 117>>,
     installation_method |-> GROUND, length |-> 50,
     derating_factor |-> 10000, max_voltage_drop_percent |-> 3000,
     voltage |-> 415]

\* A selected size, with NotFound above every catalog size.
Rank(r) == IF IsSelected(r) THEN r.size ELSE 1000000

(***************************************************************************)
(* C1                                                                      *)
(***************************************************************************)

\* C1 as stated: every Selected record of a valid call has
\* actual_capacity >= current and voltage_drop <= max_voltage_drop_percent.
C1_ReturnedFieldsMeetLimits ==
    (Done("select_cable") /\ InDomain(args) /\ IsSelected(result)) =>
        /\ 10 * result.actual_capacity >= args.calculated_current
        /\ 10 * result.voltage_drop <= args.max_voltage_drop_percent

\* C1 amended: for every Selected record of a valid call the selected size
\* meets both limits before rounding (the derated capacity the program
\* computes is >= current, the voltage-drop percent it computes is <= max,
\* and so are the exact values); the returned actual_capacity and
\* voltage_drop are the computed values rounded to 2 decimals, so they are
\* within 0.005 of the limits, and meet them whenever the current,
\* respectively the max percent, has at most 2 decimals.
C1_SelectedMeetsLimitsBeforeRounding ==
    (Done("select_cable") /\ InDomain(args) /\ IsSelected(result)) =>
        /\ result.size \in Catalog(args)
        /\ fcmp(ComputedCapacity(args, result.size),
                Dec(args.calculated_current, 1000)) >= 0
        /\ fcmp(ComputedPercent(args, result.size),
                Dec(args.max_voltage_drop_percent, 1000)) <= 0
        /\ Qualifies(args, result.size)
        /\ result.actual_capacity
              = round(ComputedCapacity(args, result.size), 2)
        /\ result.voltage_drop = round(ComputedPercent(args, result.size), 2)
        /\ args.calculated_current - 10 * result.actual_capacity <= 5
        /\ 10 * result.voltage_drop - args.max_voltage_drop_percent <= 5
        /\ (args.calculated_current % 10 = 0 =>
              10 * result.actual_capacity >= args.calculated_current)
        /\ (args.max_voltage_drop_percent % 10 = 0 =>
              10 * result.voltage_drop <= args.max_voltage_drop_percent)

\* A valid call with a 2-decimal current and limit returned Selected with a
\* derated capacity that rounding changed.
C1_Witness ==
    /\ Done("select_cable") /\ InDomain(args) /\ IsSelected(result)
    /\ args.calculated_current % 10 = 0
    /\ args.max_voltage_drop_percent % 10 = 0
    /\ 100 * result.actual_capacity
          # BaseCapacity(args, result.size) * args.derating_factor

(***************************************************************************)
(* C2                                                                      *)
(***************************************************************************)

\* C2: a Selected size satisfies both criteria and no smaller catalog size
\* satisfies both; the worked example skips 10 mm2 (capacity met, voltage
\* drop too high) and selects 16 mm2.
C2_SmallestQualifyingSize ==
    /\ (Done("select_cable") /\ InDomain(args) /\ IsSelected(result)) =>
          /\ result.size \in Catalog(args)
          /\ Qualifies(args, result.size)
          /\ \A s \in Catalog(args) : s < result.size => ~Qualifies(args, s)
    /\ (Done("select_cable") /\ args = Example) =>
          /\ CapacityCriterion(args, 100)
          /\ ~VoltageDropCriterion(args, 100)
          /\ IsSelected(result)
          /\ result.size = 160

(***************************************************************************)
(* C3                                                                      *)
(***************************************************************************)

\* C3: a valid call returns (never raises); it returns NotFound, with size,
\* actual_capacity, voltage_drop and voltage_drop_mv None, exactly when no
\* catalog size satisfies both criteria, and Selected otherwise.
C3_NotFoundIffNoSizeQualifies ==
    (Done("select_cable") /\ InDomain(args)) =>
        /\ result.kind = "return"
        /\ IsNotFound(result) <=> (\A s \in Catalog(args) : ~Qualifies(args, s))
        /\ IsSelected(result) <=> (\E s \in Catalog(args) : Qualifies(args, s))
        /\ IsNotFound(result) =>
              /\ result.size = None
              /\ result.actual_capacity = None
              /\ result.voltage_drop = None
              /\ result.voltage_drop_mv = None
              /\ result.limit = args.max_voltage_drop_percent

(***************************************************************************)
(* C4                                                                      *)
(***************************************************************************)

\* The currents of the grid above c, and the least of them.
LargerCurrents(c) == {d \in GridCurrents : d > c}

NextCurrent(c) ==
    CHOOSE d \in LargerCurrents(c) : \A e \in LargerCurrents(c) : d <= e

\* The outcome of the same call with the next larger current.
AtNextCurrent(a) ==
    select_cable(NextCurrent(a.calculated_current), a.conductor_type,
                 a.installation_method, a.length, a.derating_factor,
                 a.max_voltage_drop_percent, a.voltage)

\* C4: with the other arguments fixed and valid, a larger current never
\* selects a smaller size, NotFound counting as larger than every size.
\* Stated for each current and the next larger one, which gives every pair
\* of currents by transitivity.
C4_MonotonicInCurrent ==
    (/\ Done("select_cable") /\ InDomain(args)
     /\ LargerCurrents(args.calculated_current) # {}) =>
        Rank(AtNextCurrent(args)) >= Rank(result)

\* A valid call selected a size, and the next larger current of the same
\* call selects a strictly larger size.
C4_Witness ==
    /\ Done("select_cable") /\ InDomain(args) /\ IsSelected(result)
    /\ LargerCurrents(args.calculated_current) # {}
    /\ IsSelected(AtNextCurrent(args))
    /\ AtNextCurrent(args).size > result.size

(***************************************************************************)
(* C5                                                                      *)
(***************************************************************************)

\* C5: select_cable raises ValueError, returning no record, for every input
\* outside its documented domain: unknown material or method, derating
\* factor outside (0,1], non-positive length, current or voltage.
C5_InvalidInputRaisesValueError ==
    (Done("select_cable") /\ ~InDomain(args)) =>
        (result.kind = "raise" /\ result.exception = "ValueError")

(***************************************************************************)
(* C6                                                                      *)
(***************************************************************************)
LoadInDomain(a) ==
    /\ a.load_type \in {"kW", "HP", "Amps"}
    /\ a.voltage \in {230, 415}
    /\ a.power_factor > 0 /\ a.power_factor <= 100

\* C6: calculate_current raises ValueError and returns no value exactly when
\* the unit, the voltage or the power factor is outside its domain, for the
\* unit Amps as well.
C6_InvalidLoadRaisesValueError ==
    Done("calculate_current") =>
        /\ ~LoadInDomain(args) =>
              (result.kind = "raise" /\ result.exception = "ValueError")
        /\ LoadInDomain(args) => result.kind = "return"

\* A call with unit Amps and a bad voltage or power factor raised.
C6_Witness ==
    /\ Done("calculate_current")
    /\ args.load_type = "Amps"
    /\ ~LoadInDomain(args)
    /\ result.kind = "raise"

(***************************************************************************)
(* C7                                                                      *)
(***************************************************************************)
Abs(n) == IF n < 0 THEN -n ELSE n

\* x * x for x below 2^56.
BigSquare(x) == BigMul(SubSeq(x, 1, 4), SubSeq(x, 1, 4))

\* n hundredths of an Ampere is the reference current rounded to 2 decimals,
\* |n - reference| <= 1/2 hundredth, where the reference is
\* load x w / (10 x V x pf) at 230 V and load x w / (10 x sqrt(3) x V x pf)
\* at 415 V in the units of the arguments, w = 1000 for kW and 746 for HP:
\* (2|n| - 1) x V x pf <= 20 x |load| x w <= (2|n| + 1) x V x pf, with the
\* bounds multiplied by sqrt(3) at 415 V (compared by their squares).
IsReferenceRounded(a, n) ==
    LET w == IF a.load_type = "HP" THEN 746 ELSE 1000
        power == BigMul(BigFromInt(20 * Abs(a.load_value)), BigFromInt(w))
        vpf == BigFromInt(a.voltage * a.power_factor)
        lo == BigMul(BigFromInt(IF n = 0 THEN 0 ELSE 2 * Abs(n) - 1), vpf)
        hi == BigMul(BigFromInt(2 * Abs(n) + 1), vpf)
    IN  /\ n > 0 => a.load_value > 0
        /\ n < 0 => a.load_value < 0
        /\ IF a.voltage = 230
           THEN BigLeq(lo, power) /\ BigLeq(power, hi)
           ELSE /\ BigLeq(BigMulSmall(BigSquare(lo), 3), BigSquare(power))
                /\ BigLeq(BigSquare(power), BigMulSmall(BigSquare(hi), 3))

\* The load of a.load_value HP has a kW equivalent with 3 decimals.
HasKwEquivalent(a) ==
    a.load_type = "HP" /\ (746 * a.load_value) % 1000 = 0

\* The outcome of the call with the kW equivalent of a.load_value HP.
AsKw(a) ==
    calculate_current((746 * a.load_value) \div 1000, "kW", a.voltage,
                      a.power_factor)

\* C7 as stated: for kW and HP loads with valid voltage and power factor the
\* result is the reference current rounded to 2 decimals, and a load of
\* x HP gives the result of 0.746 x kW.
C7_PowerToCurrentEqual ==
    (Done("calculate_current") /\ LoadInDomain(args)
        /\ args.load_type \in {"kW", "HP"}) =>
        /\ result.kind = "return"
        /\ result.value % 10 = 0
        /\ IsReferenceRounded(args, result.value \div 10)
        /\ HasKwEquivalent(args) => result = AsKw(args)

(***************************************************************************)
(* C8                                                                      *)
(***************************************************************************)

\* C8: with unit Amps and valid voltage and power factor the result is the
\* load value itself, whatever the voltage and power factor, not rounded.
C8_AmpsIdentity ==
    (Done("calculate_current") /\ LoadInDomain(args)
        /\ args.load_type = "Amps") =>
        (result.kind = "return" /\ result.value = args.load_value)

\* A valid Amps call returned a value with a third decimal.
C8_Witness ==
    /\ Done("calculate_current") /\ LoadInDomain(args)
    /\ args.load_type = "Amps"
    /\ args.load_value % 10 # 0
    /\ result.kind = "return"

(***************************************************************************)
(* C9                                                                      *)
(***************************************************************************)

\* C9: a size whose derated capacity equals the current passes the capacity
\* criterion: it is selected unless a smaller size was, or its own voltage
\* drop is too high; the worked example's 10 mm2 (63 A) is rejected only
\* for its 3.34 % voltage drop.
C9_CapacityCheckInclusive ==
    /\ (Done("select_cable") /\ InDomain(args)) =>
          \A s \in Catalog(args) :
              (BaseCapacity(args, s) * args.derating_factor
                  = 10 * args.calculated_current
               /\ VoltageDropCriterion(args, s)) =>
                  (IsSelected(result) /\ result.size <= s)
    /\ (Done("select_cable") /\ args = Example) =>
          /\ BaseCapacity(args, 100) * args.derating_factor
                = 10 * args.calculated_current
          /\ IsPercentRounded(args, 100, 334)
          /\ IsSelected(result) /\ result.size = 160

(***************************************************************************)
(* C10                                                                     *)
(***************************************************************************)
MethodKeys == {GROUND, FREE_AIR, PIPE_DUCT}

\* C10: per material the capacity table and the voltage-drop table have the
\* same keys and every capacity entry rates the three methods, so no lookup
\* of a scan with a valid material and method fails.
C10_TablesShareKeys ==
    /\ DOMAIN COPPER_CURRENT_RATINGS = DOMAIN COPPER_VOLTAGE_DROP_FACTORS
    /\ DOMAIN ALUMINIUM_CURRENT_RATINGS = DOMAIN ALUMINIUM_VOLTAGE_DROP_FACTORS
    /\ \A s \in DOMAIN COPPER_CURRENT_RATINGS :
          DOMAIN COPPER_CURRENT_RATINGS[s] = MethodKeys
    /\ \A s \in DOMAIN ALUMINIUM_CURRENT_RATINGS :
          DOMAIN ALUMINIUM_CURRENT_RATINGS[s] = MethodKeys
    /\ (Done("select_cable") /\ TagsValid(args)) =>
          ~(result.kind = "raise" /\ result.exception = "KeyError")

\* A scan went through the whole catalog and selected the largest size.
C10_Witness ==
    /\ Done("select_cable") /\ TagsValid(args) /\ IsSelected(result)
    /\ \A s \in Catalog(args) : s <= result.size

(***************************************************************************)
(* C11                                                                     *)
(***************************************************************************)

\* Size s passes the two tests on the unrounded values of the program.
QualifiesUnrounded(a, s) ==
    /\ fcmp(ComputedCapacity(a, s), Dec(a.calculated_current, 1000)) >= 0
    /\ fcmp(ComputedPercent(a, s), Dec(a.max_voltage_drop_percent, 1000)) <= 0

\* Size s would pass the capacity test if the derated capacity were rounded
\* to 2 decimals before it.
CapacityRoundedOk(a, s) ==
    fcmp(Dec(round(ComputedCapacity(a, s), 2), 100),
         Dec(a.calculated_current, 1000)) >= 0

\* C11: both tests of select_cable use the unrounded derated capacity and
\* voltage-drop percent, so a valid call selects the smallest size that
\* passes them unrounded; only the record is rounded: actual_capacity and
\* voltage_drop to 2 decimals, voltage_drop_mv (factor x current) to 3.
C11_RoundingIsCosmetic ==
    (Done("select_cable") /\ InDomain(args)) =>
        /\ IsSelected(result)
              <=> (\E s \in Catalog(args) : QualifiesUnrounded(args, s))
        /\ IsSelected(result) =>
              /\ QualifiesUnrounded(args, result.size)
              /\ \A s \in Catalog(args) :
                    s < result.size => ~QualifiesUnrounded(args, s)
              /\ result.actual_capacity
                    = round(ComputedCapacity(args, result.size), 2)
              /\ result.voltage_drop
                    = round(ComputedPercent(args, result.size), 2)
              /\ result.voltage_drop_mv
                    = round(fdiv(ComputedDrop(args, result.size),
                                 FromInt(args.length)), 3)
              /\ 100 * result.actual_capacity
                    - BaseCapacity(args, result.size) * args.derating_factor
                    \in -50..50
              /\ IsPercentRounded(args, result.size, result.voltage_drop)
              /\ 100 * result.voltage_drop_mv
                    - VdFactor(args, result.size) * args.calculated_current
                    \in -50..50

\* A valid call selected a size that the capacity test on the rounded value
\* would have rejected: its returned capacity is below the current.
C11_Witness ==
    /\ Done("select_cable") /\ InDomain(args) /\ IsSelected(result)
    /\ ~CapacityRoundedOk(args, result.size)
    /\ 10 * result.actual_capacity < args.calculated_current
====
